---- MODULE Spec2Model ----
(***************************************************************************)
(* Sudontku: the Grid engine of Sudoku.py (generation, mutation, queries), *)
(* its copy in SudokuCLI.py, and the two shells that drive them.           *)
(*                                                                         *)
(* Arrays are indexed as in the source: solution[y][x], grid[y][x],        *)
(* mask[y][x], notes[y][x][num - 1], all 0-based.  A coordinate is the     *)
(* tuple <<x, y>>.                                                         *)
(***************************************************************************)
EXTENDS Integers, Sequences, FiniteSets, TLC

\* ------------------------------------------------------------------ bounds
\* number of seeds of the random generator that are explored
MaxSeed == 2
\* number of API calls a client of the engine makes after fill_values()
MaxOps == 3
\* number of non-given cells a client or a player touches
MaxProbe == 1
\* the digits 1..MaxNote are used for notes and typed by a player
MaxNote == 2
\* a solving client writes into one of the first MaxAhead empty cells
MaxAhead == 2
\* number of games a player of the graphical shell starts
MaxGames == 2

\* states of the random module fill_diagonal is started from
MaxRng == 200
MaxFree == 4

\* grid orders with an integer square root
Orders == {4, 9}

VARIABLES
    prog,       \* who drives the engine: "Sudoku" (graphical shell),
                \* "SudokuCLI" (console), "Grid" (a caller of Sudoku.py's Grid)
    pc,         \* control point: "new", "fill", "remove", "ready"
    N, K, sqrt_N,
    solution, grid, mask, notes,
    selected, focused,
    rng,        \* state of the random module
    stack, ret, \* the active fill_remaining calls and the value being returned
    used, ri,   \* locals of remove_K_digits (used, i)
    draws,      \* history: turns of the loop of remove_K_digits so far
    orig,       \* history: the Playing Grid as fill_values() left it
    seeded,     \* history: the Solution as fill_diagonal() left it
    ops,        \* history: number of calls / events since fill_values()
    note,       \* graphical shell: the module's note-mode flag
    mouse,      \* graphical shell: the cell under the pointer, NoCell if none
    solved,     \* the local "solved" of play(), tested by its loop
    g_solved,   \* the module global "solved" that UI.win() assigns
    games,      \* number of Grid objects play() has created so far
    last,       \* history: the latest call / event and its arguments
    trail       \* history: is_solved() after each call of the client

shell == <<note, mouse, solved, g_solved, games>>

vars == <<prog, pc, N, K, sqrt_N, solution, grid, mask, notes, selected,
          focused, rng, stack, ret, used, ri, draws, orig, seeded, ops, shell, last,
          trail>>

\* ------------------------------------------------------- the random module
\* the generator behind shuffle and randint: one step of its state
random_next(r) == (r * 75 + 74) % 65537

\* a draw below n: the value and the generator's next state
randbelow(r, n) ==
    [val |-> (random_next(r) * n) \div 65537, rng |-> random_next(r)]

\* randint(a, b): a <= value <= b
randint(r, a, b) ==
    LET d == randbelow(r, b - a + 1) IN [val |-> a + d.val, rng |-> d.rng]

\* the seeds explored
Seeds == {(s * 10000) % 65537 : s \in 0..(MaxSeed - 1)}

RECURSIVE shuffle_from(_, _, _)
\* shuffle's loop: for i in reversed(range(1, len(x))), swap x[i], x[j]
\* (x is a 1-based sequence here, so Python's x[i] is x[i + 1])
shuffle_from(x, i, r) ==
    IF i < 1 THEN [nums |-> x, rng |-> r]
    ELSE LET d == randbelow(r, i + 1)
             j == d.val
             sw == [x EXCEPT ![i + 1] = x[j + 1], ![j + 1] = x[i + 1]]
         IN shuffle_from(sw, i - 1, d.rng)

shuffle(x, r) == shuffle_from(x, Len(x) - 1, r)

\* -------------------------------------------------------------- Grid.__init__
isqrt(n) == CHOOSE q \in 0..n : q * q <= n /\ (q + 1) * (q + 1) > n

ZeroGrid(n) == [y \in 0..(n - 1) |-> [x \in 0..(n - 1) |-> 0]]

ZeroNotes(n) ==
    [y \in 0..(n - 1) |-> [x \in 0..(n - 1) |-> [k \in 0..(n - 1) |-> 0]]]

NoCell == <<-1, -1>>

\* the record kept in last: the operation, its cell and number, and whether
\* that cell had a note set when the operation began
Event(op, x, y, num) ==
    [op |-> op, x |-> x, y |-> y, num |-> num,
     had |-> IF x \notin 0..(N - 1) \/ y \notin 0..(N - 1) THEN FALSE
             ELSE \E k \in 0..(N - 1) : notes[y][x][k] = 1]

Coords == (0..(N - 1)) \X (0..(N - 1))

\* ------------------------------------------------------- constraint checks
used_in_row(sol, row, num) ==
    Cardinality({x \in 0..(N - 1) : sol[row][x] = num}) # 0

used_in_column(sol, column, num) ==
    Cardinality({y \in 0..(N - 1) : sol[y][column] = num}) # 0

used_in_block(sol, x, y, num) ==
    LET left == x - (x % sqrt_N)
        top == y - (y % sqrt_N)
    IN \E curr_x \in left..(left + sqrt_N - 1) :
         \E curr_y \in top..(top + sqrt_N - 1) : sol[curr_y][curr_x] = num

\* check_position that forgets the column (mutant)
check_position_no_column(sol, x, y, num) ==
    /\ ~used_in_row(sol, y, num)
    /\ ~used_in_block(sol, x, y, num)

check_position(sol, x, y, num) ==
    /\ ~used_in_row(sol, y, num)
    /\ ~used_in_column(sol, x, num)
    /\ ~used_in_block(sol, x, y, num)

\* the console program's copy
CLI_used_in_block(sol, x, y, num) ==
    LET left == x - (x % sqrt_N)
        top == y - (y % sqrt_N)
    IN \E curr_x \in left..(left + sqrt_N - 2) :
         \E curr_y \in top..(top + sqrt_N - 2) : sol[curr_y][curr_x] = num

CLI_check_position(sol, x, y, num) ==
    /\ ~used_in_row(sol, y, num)
    /\ ~used_in_column(sol, x, num)
    /\ ~CLI_used_in_block(sol, x, y, num)

\* self.check_position of the engine copy that is running
self_check_position(sol, x, y, num) ==
    IF prog = "SudokuCLI" THEN CLI_check_position(sol, x, y, num)
    ELSE check_position(sol, x, y, num)

\* ----------------------------------------------------------------- generator
\* fill_block whose index starts again at each row of the block (mutant)
fill_block_same_rows(sol, row, column, r) ==
    LET s == shuffle([k \in 1..N |-> k], r)
        InBlock(y, x) == /\ row <= y /\ y < row + sqrt_N
                         /\ column <= x /\ x < column + sqrt_N
    IN [sol |-> [y \in 0..(N - 1) |-> [x \in 0..(N - 1) |->
                   IF InBlock(y, x)
                   THEN s.nums[(x - column) + 1]
                   ELSE sol[y][x]]],
        rng |-> s.rng]

\* fill_block: a shuffled 1..N laid out row-major in the block at (row, column)
fill_block(sol, row, column, r) ==
    LET s == shuffle([k \in 1..N |-> k], r)
        InBlock(y, x) == /\ row <= y /\ y < row + sqrt_N
                         /\ column <= x /\ x < column + sqrt_N
    IN [sol |-> [y \in 0..(N - 1) |-> [x \in 0..(N - 1) |->
                   IF InBlock(y, x)
                   THEN s.nums[(y - row) * sqrt_N + (x - column) + 1]
                   ELSE sol[y][x]]],
        rng |-> s.rng]

RECURSIVE fill_diagonal_from(_, _, _)
\* fill_diagonal's loop: for i in range(0, N, sqrt_N): fill_block(i, i)
fill_diagonal_from(sol, i, r) ==
    IF i >= N THEN [sol |-> sol, rng |-> r]
    ELSE LET b == fill_block(sol, i, i, r)
         IN fill_diagonal_from(b.sol, i + sqrt_N, b.rng)

fill_diagonal(sol, r) == fill_diagonal_from(sol, 0, r)

\* A frame of fill_remaining: num = 0 for a call that has not run yet (x, y
\* are its arguments), num = -1 for a call waiting in
\* "return self.fill_remaining(x + 1, y)", num in 1..N for a call waiting in
\* the loop with solution[y][x] = num.
Frame(x, y, num) == [x |-> x, y |-> y, num |-> num]

Top == stack[Len(stack)]

Pop == SubSeq(stack, 1, Len(stack) - 1)

\* next_num for "for num in range(lo, N)", which never tries N (mutant)
next_num_below_N(sol, x, y, lo) ==
    LET c == {n \in lo..(N - 1) : self_check_position(sol, x, y, n)}
    IN IF c = {} THEN 0 ELSE CHOOSE n \in c : \A m \in c : n <= m

\* next_num for "for num in range(N, 0, -1)": the candidates are tried from
\* N down, below the one tried before (mutant)
next_num_downwards(sol, x, y, lo) ==
    LET top == IF lo = 1 THEN N ELSE lo - 2
        c == {n \in 1..top : self_check_position(sol, x, y, n)}
    IN IF c = {} THEN 0 ELSE CHOOSE n \in c : \A m \in c : n >= m

\* the first candidate of "for num in range(lo, N + 1)" that passes
\* check_position, 0 when there is none
next_num(sol, x, y, lo) ==
    LET c == {n \in lo..N : self_check_position(sol, x, y, n)}
    IN IF c = {} THEN 0 ELSE CHOOSE n \in c : \A m \in c : n <= m

\* the loop of fill_remaining, entered or resumed at candidate lo for the
\* call on top of the stack, whose cell is (x, y)
fill_remaining_loop(sol, x, y, lo) ==
    LET num == next_num(sol, x, y, lo)
    IN IF num = 0
       THEN /\ solution' = sol
            /\ stack' = Pop
            /\ ret' = "False"
       ELSE /\ solution' = [sol EXCEPT ![y][x] = num]
            /\ stack' = Append(Append(Pop, Frame(x, y, num)),
                               Frame(x + 1, y, 0))
            /\ ret' = "none"

\* fill_remaining whose call for a cell that is already filled is
\* fill_remaining(x, y) again (mutant)
fill_remaining_call_same_cell ==
    /\ pc = "fill" /\ ret = "none" /\ stack # <<>> /\ Top.num = 0
    /\ IF Top.y = N - 1 /\ Top.x = N
       THEN /\ stack' = Pop
            /\ ret' = "True"
            /\ UNCHANGED solution
       ELSE LET x == IF Top.x = N THEN 0 ELSE Top.x
                y == IF Top.x = N THEN Top.y + 1 ELSE Top.y
            IN IF solution[y][x] # 0
               THEN /\ stack' = Append(Append(Pop, Frame(x, y, -1)),
                                       Frame(x, y, 0))
                    /\ ret' = "none"
                    /\ UNCHANGED solution
               ELSE fill_remaining_loop(solution, x, y, 1)
    /\ UNCHANGED <<shell, prog, pc, N, K, sqrt_N, grid, mask, notes, selected,
                   focused, rng, used, ri, draws, orig, seeded, ops, last,
                   trail>>

\* a call of fill_remaining(x, y) starts to run
fill_remaining_call ==
    /\ pc = "fill" /\ ret = "none" /\ stack # <<>> /\ Top.num = 0
    /\ IF Top.y = N - 1 /\ Top.x = N
       THEN /\ stack' = Pop
            /\ ret' = "True"
            /\ UNCHANGED solution
       ELSE LET x == IF Top.x = N THEN 0 ELSE Top.x
                y == IF Top.x = N THEN Top.y + 1 ELSE Top.y
            IN IF solution[y][x] # 0
               THEN /\ stack' = Append(Append(Pop, Frame(x, y, -1)),
                                       Frame(x + 1, y, 0))
                    /\ ret' = "none"
                    /\ UNCHANGED solution
               ELSE fill_remaining_loop(solution, x, y, 1)
    /\ UNCHANGED <<shell, prog, pc, N, K, sqrt_N, grid, mask, notes, selected,
                   focused, rng, used, ri, draws, orig, seeded, ops, last, trail>>

\* fill_remaining without "self.solution[y][x] = 0" after a failed
\* candidate (mutant)
fill_remaining_return_no_reset ==
    /\ pc = "fill" /\ ret # "none" /\ stack # <<>>
    /\ IF Top.num = -1 \/ ret = "True"
       THEN /\ stack' = Pop
            /\ UNCHANGED <<ret, solution>>
       ELSE fill_remaining_loop(solution, Top.x, Top.y, Top.num + 1)
    /\ UNCHANGED <<shell, prog, pc, N, K, sqrt_N, grid, mask, notes, selected,
                   focused, rng, used, ri, draws, orig, seeded, ops, last,
                   trail>>

\* fill_remaining that also zeroes a cell it had skipped when the call it
\* made for the next cell returns False (mutant)
fill_remaining_return_zeroes_skipped ==
    /\ pc = "fill" /\ ret # "none" /\ stack # <<>>
    /\ IF ret = "True"
       THEN /\ stack' = Pop
            /\ UNCHANGED <<ret, solution>>
       ELSE IF Top.num = -1
       THEN /\ stack' = Pop
            /\ solution' = [solution EXCEPT ![Top.y][Top.x] = 0]
            /\ UNCHANGED ret
       ELSE fill_remaining_loop([solution EXCEPT ![Top.y][Top.x] = 0],
                                Top.x, Top.y, Top.num + 1)
    /\ UNCHANGED <<shell, prog, pc, N, K, sqrt_N, grid, mask, notes, selected,
                   focused, rng, used, ri, draws, orig, seeded, ops, last,
                   trail>>

\* a call of fill_remaining gets the result of the call it made
fill_remaining_return ==
    /\ pc = "fill" /\ ret # "none" /\ stack # <<>>
    /\ IF Top.num = -1 \/ ret = "True"
       THEN /\ stack' = Pop
            /\ UNCHANGED <<ret, solution>>
       ELSE fill_remaining_loop([solution EXCEPT ![Top.y][Top.x] = 0],
                                Top.x, Top.y, Top.num + 1)
    /\ UNCHANGED <<shell, prog, pc, N, K, sqrt_N, grid, mask, notes, selected,
                   focused, rng, used, ri, draws, orig, seeded, ops, last, trail>>

\* fill_values: fill_diagonal(), then the call fill_remaining(sqrt_N - 1, 0)
fill_values ==
    /\ pc = "new"
    /\ LET d == fill_diagonal(solution, rng)
       IN /\ solution' = d.sol
          /\ seeded' = d.sol
          /\ rng' = d.rng
    /\ stack' = <<Frame(sqrt_N - 1, 0, 0)>>
    /\ ret' = "none"
    /\ pc' = "fill"
    /\ UNCHANGED <<shell, prog, N, K, sqrt_N, grid, mask, notes, selected, focused,
                   used, ri, draws, orig, ops, last, trail>>

\* the orders of 1..N a shuffle can leave
Perms == {p \in [1..N -> 1..N] : \A i, j \in 1..N : p[i] = p[j] => i = j}

\* fill_diagonal when the shuffle of block i leaves the order ps[i]
seed_diagonal(sol, ps) ==
    [y \in 0..(N - 1) |-> [x \in 0..(N - 1) |->
       IF x \div sqrt_N = y \div sqrt_N
       THEN ps[x \div sqrt_N][(y % sqrt_N) * sqrt_N + (x % sqrt_N) + 1]
       ELSE sol[y][x]]]

\* fill_values with every outcome of the shuffles: fill_diagonal(), then the
\* call fill_remaining(sqrt_N - 1, 0)
fill_values_any ==
    /\ pc = "new"
    /\ \E ps \in [0..(sqrt_N - 1) -> Perms] :
         /\ solution' = seed_diagonal(solution, ps)
         /\ seeded' = seed_diagonal(solution, ps)
    /\ stack' = <<Frame(sqrt_N - 1, 0, 0)>>
    /\ ret' = "none"
    /\ pc' = "fill"
    /\ UNCHANGED <<shell, prog, N, K, sqrt_N, grid, mask, notes, selected, focused,
                   rng, used, ri, draws, orig, ops, last, trail>>

\* fill_values: fill_remaining has returned (its result is dropped) and
\* remove_K_digits() is entered
remove_K_digits_enter ==
    /\ pc = "fill" /\ ret # "none" /\ stack = <<>>
    /\ used' = {}
    /\ ri' = 0
    /\ draws' = 0
    /\ pc' = "remove"
    /\ UNCHANGED <<shell, prog, N, K, sqrt_N, solution, grid, mask, notes, selected,
                   focused, rng, stack, ret, orig, seeded, ops, last, trail>>

\* remove_K_digits counting a repeated coordinate as well (mutant)
remove_K_digits_repeats ==
    /\ pc = "remove" /\ ri < K
    /\ LET dx == randint(rng, 0, N - 1)
           dy == randint(dx.rng, 0, N - 1)
           x == dx.val
           y == dy.val
       IN /\ rng' = dy.rng
          /\ used' = used \cup {<<x, y>>}
          /\ grid' = [grid EXCEPT ![y][x] = solution[y][x]]
          /\ mask' = [mask EXCEPT ![y][x] = TRUE]
          /\ ri' = ri + 1
    /\ draws' = draws + 1
    /\ UNCHANGED <<shell, prog, pc, N, K, sqrt_N, solution, notes, selected,
                   focused, stack, ret, orig, seeded, ops, last, trail>>

\* one turn of the loop of remove_K_digits
remove_K_digits ==
    /\ pc = "remove" /\ ri < K
    /\ LET dx == randint(rng, 0, N - 1)
           dy == randint(dx.rng, 0, N - 1)
           x == dx.val
           y == dy.val
       IN /\ rng' = dy.rng
          /\ IF <<x, y>> \notin used
             THEN /\ used' = used \cup {<<x, y>>}
                  /\ grid' = [grid EXCEPT ![y][x] = solution[y][x]]
                  /\ mask' = [mask EXCEPT ![y][x] = TRUE]
                  /\ ri' = ri + 1
             ELSE UNCHANGED <<used, grid, mask, ri>>
    /\ draws' = draws + 1
    /\ UNCHANGED <<shell, prog, pc, N, K, sqrt_N, solution, notes, selected,
                   focused, stack, ret, orig, seeded, ops, last, trail>>

\* one turn of the loop of remove_K_digits that counts a repeated coordinate
\* as well, the coordinate being given (mutant)
remove_K_digits_draw_repeats(x, y) ==
    /\ pc = "remove" /\ ri < K
    /\ used' = used \cup {<<x, y>>}
    /\ grid' = [grid EXCEPT ![y][x] = solution[y][x]]
    /\ mask' = [mask EXCEPT ![y][x] = TRUE]
    /\ ri' = ri + 1
    /\ UNCHANGED <<shell, prog, pc, N, K, sqrt_N, solution, notes, selected,
                   focused, rng, stack, ret, draws, orig, seeded, ops, last,
                   trail>>

\* one turn of the loop of remove_K_digits when the two randint calls give
\* x and y; the state of the random module and the count of turns are not
\* kept here
remove_K_digits_draw(x, y) ==
    /\ pc = "remove" /\ ri < K
    /\ IF <<x, y>> \notin used
       THEN /\ used' = used \cup {<<x, y>>}
            /\ grid' = [grid EXCEPT ![y][x] = solution[y][x]]
            /\ mask' = [mask EXCEPT ![y][x] = TRUE]
            /\ ri' = ri + 1
       ELSE UNCHANGED <<used, grid, mask, ri>>
    /\ UNCHANGED <<shell, prog, pc, N, K, sqrt_N, solution, notes, selected,
                   focused, rng, stack, ret, draws, orig, seeded, ops, last,
                   trail>>

\* one turn of the loop of remove_K_digits, for every outcome of the draws
remove_K_digits_any ==
    \E x \in 0..(N - 1), y \in 0..(N - 1) : remove_K_digits_draw(x, y)

\* remove_K_digits and with it fill_values return
fill_values_return ==
    /\ pc = "remove" /\ ri >= K
    /\ pc' = "ready"
    /\ orig' = grid
    /\ UNCHANGED <<seeded, shell, prog, N, K, sqrt_N, solution, grid, mask, notes, selected,
                   focused, rng, stack, ret, used, ri, draws, ops, last,
                   trail>>

Generate ==
    \/ fill_values
    \/ fill_remaining_call
    \/ fill_remaining_return
    \/ remove_K_digits_enter
    \/ remove_K_digits
    \/ fill_values_return

\* the state Grid(n, k) leaves
Grid_init(n, k) ==
    /\ N = n
    /\ K = k
    /\ sqrt_N = isqrt(n)
    /\ solution = ZeroGrid(n)
    /\ grid = ZeroGrid(n)
    /\ mask = [y \in 0..(n - 1) |-> [x \in 0..(n - 1) |-> FALSE]]
    /\ notes = ZeroNotes(n)
    /\ selected = NoCell
    /\ focused = NoCell
    /\ stack = <<>>
    /\ ret = "none"
    /\ used = {}
    /\ ri = 0
    /\ draws = 0
    /\ orig = ZeroGrid(n)
    /\ seeded = ZeroGrid(n)
    /\ ops = 0
    /\ last = Event("none", -1, -1, 0)
    /\ trail = <<>>
    /\ note = FALSE
    /\ mouse = NoCell
    /\ solved = FALSE
    /\ g_solved = FALSE
    /\ games = 1
    /\ pc = "new"

\* --------------------------------------------------- queries of the engine
check_if_given(x, y) == mask[y][x]

\* is_solved that leaves the last row out of the comparison (mutant)
is_solved_but_last_row ==
    \A y \in 0..(N - 2) : grid[y] = solution[y]

\* is_solved that only asks whether the grid is full (mutant)
is_solved_when_full ==
    \A y \in 0..(N - 1) : \A x \in 0..(N - 1) : grid[y][x] # 0

is_solved == grid = solution

RECURSIVE sum_upto(_, _)
\* sum(f[0..n])
sum_upto(f, n) == IF n < 0 THEN 0 ELSE f[n] + sum_upto(f, n - 1)

\* num_empty_spaces with the test on space inverted (mutant)
num_empty_spaces_inverted ==
    LET filled == [y \in 0..(N - 1) |-> [x \in 0..(N - 1) |->
                     IF grid[y][x] # 0 THEN 0 ELSE 1]]
        rows == [y \in 0..(N - 1) |-> sum_upto(filled[y], N - 1)]
    IN N * N - sum_upto(rows, N - 1)

\* N ** 2 - sum([sum(row) for row in filled]), filled = 1 where space else 0
num_empty_spaces ==
    LET filled == [y \in 0..(N - 1) |-> [x \in 0..(N - 1) |->
                     IF grid[y][x] # 0 THEN 1 ELSE 0]]
        rows == [y \in 0..(N - 1) |-> sum_upto(filled[y], N - 1)]
    IN N * N - sum_upto(rows, N - 1)

get_notes_from_cell(x, y) == notes[y][x]

\* ------------------------------------------------- mutations of the engine
write_num(g, num, x, y) == [g EXCEPT ![y][x] = num]

remove_num(g, x, y) == [g EXCEPT ![y][x] = 0]

\* for i, for j: if not check_if_given(i, j): grid[j][i] = 0
clear_nums(g) ==
    [j \in 0..(N - 1) |-> [i \in 0..(N - 1) |->
       IF ~check_if_given(i, j) THEN 0 ELSE g[j][i]]]

\* write_note that counts the notes written (mutant)
write_note_counts(nt, x, y, num) == [nt EXCEPT ![y][x][num - 1] = @ + 1]

write_note(nt, x, y, num) == [nt EXCEPT ![y][x][num - 1] = 1]

clear_note(nt, x, y, num) == [nt EXCEPT ![y][x][num - 1] = 0]

clear_notes_in_cell(nt, x, y) ==
    [nt EXCEPT ![y][x] = [k \in 0..(N - 1) |-> 0]]

\* for y, for x: clear_notes_in_cell(x, y)
clear_all_notes(nt) ==
    [y \in 0..(N - 1) |-> [x \in 0..(N - 1) |->
       clear_notes_in_cell(nt, x, y)[y][x]]]

\* ------------------------------------------ a client that calls the engine
Given == {c \in Coords : check_if_given(c[1], c[2])}

NonGiven == Coords \ Given

RECURSIVE FirstCells(_, _, _)
\* the first k cells, in row-major order from cell number c on, that are
\* given (want = TRUE) or not given (want = FALSE)
FirstCells(want, c, k) ==
    IF k = 0 \/ c >= N * N THEN {}
    ELSE IF check_if_given(c % N, c \div N) = want
         THEN {<<c % N, c \div N>>} \cup FirstCells(want, c + 1, k - 1)
         ELSE FirstCells(want, c + 1, k)

\* the cells a client or player touches: the first given cell and the first
\* MaxProbe cells that are not given
Probes == FirstCells(TRUE, 0, 1) \cup FirstCells(FALSE, 0, MaxProbe)

\* a value of 1..N other than v
Wrong(v) == (v % N) + 1

\* the numbers a client writes to cell c: none, the Solution's, another one
WriteNums(c) ==
    {0, solution[c[2]][c[1]], Wrong(solution[c[2]][c[1]])}

NoteNums == 1..(IF MaxNote < N THEN MaxNote ELSE N)

CanCall == prog = "Grid" /\ pc = "ready" /\ ops < MaxOps

Called(op, x, y, num) ==
    /\ ops' = ops + 1
    /\ last' = Event(op, x, y, num)
    /\ UNCHANGED <<shell, prog, pc, N, K, sqrt_N, solution, mask, rng, stack, ret,
                   used, ri, draws, orig, seeded>>
    /\ trail' = Append(trail, is_solved')

Call_write_num ==
    /\ CanCall
    /\ UNCHANGED <<notes, selected, focused>>
    /\ \E c \in Probes : \E num \in WriteNums(c) :
         /\ grid' = write_num(grid, num, c[1], c[2])
         /\ Called("write_num", c[1], c[2], num)

Call_remove_num ==
    /\ CanCall
    /\ UNCHANGED <<notes, selected, focused>>
    /\ \E c \in Probes :
         /\ grid' = remove_num(grid, c[1], c[2])
         /\ Called("remove_num", c[1], c[2], 0)

\* clear_nums that clears the Mask with the Playing Grid (mutant)
Call_clear_nums_and_mask ==
    /\ CanCall
    /\ UNCHANGED <<notes, selected, focused>>
    /\ grid' = clear_nums(grid)
    /\ mask' = [y \in 0..(N - 1) |-> [x \in 0..(N - 1) |-> FALSE]]
    /\ ops' = ops + 1
    /\ last' = Event("clear_nums", -1, -1, 0)
    /\ UNCHANGED <<shell, prog, pc, N, K, sqrt_N, solution, rng, stack, ret,
                   used, ri, draws, orig, seeded>>
    /\ trail' = Append(trail, is_solved')

Call_clear_nums ==
    /\ CanCall
    /\ UNCHANGED <<notes, selected, focused>>
    /\ grid' = clear_nums(grid)
    /\ Called("clear_nums", -1, -1, 0)

\* write_note that also enters the number in the Playing Grid (mutant)
Call_write_note_in_grid ==
    /\ CanCall
    /\ UNCHANGED <<selected, focused>>
    /\ \E c \in Probes, num \in NoteNums :
         /\ notes' = write_note(notes, c[1], c[2], num)
         /\ grid' = write_num(grid, num, c[1], c[2])
         /\ Called("write_note", c[1], c[2], num)

Call_write_note ==
    /\ CanCall
    /\ UNCHANGED <<grid, selected, focused>>
    /\ \E c \in Probes, num \in NoteNums :
         /\ notes' = write_note(notes, c[1], c[2], num)
         /\ Called("write_note", c[1], c[2], num)

Call_clear_note ==
    /\ CanCall
    /\ UNCHANGED <<grid, selected, focused>>
    /\ \E c \in Probes, num \in NoteNums :
         /\ notes' = clear_note(notes, c[1], c[2], num)
         /\ Called("clear_note", c[1], c[2], num)

Call_clear_notes_in_cell ==
    /\ CanCall
    /\ UNCHANGED <<grid, selected, focused>>
    /\ \E c \in Probes :
         /\ notes' = clear_notes_in_cell(notes, c[1], c[2])
         /\ Called("clear_notes_in_cell", c[1], c[2], 0)

Call_clear_all_notes ==
    /\ CanCall
    /\ UNCHANGED <<grid, selected, focused>>
    /\ notes' = clear_all_notes(notes)
    /\ Called("clear_all_notes", -1, -1, 0)

Call_set_selected_cell ==
    /\ CanCall
    /\ UNCHANGED <<grid, notes, focused>>
    /\ \E c \in Probes \cup {NoCell} :
         /\ selected' = c
         /\ Called("set_selected_cell", c[1], c[2], 0)

Call_set_focused_cell ==
    /\ CanCall
    /\ UNCHANGED <<grid, notes, selected>>
    /\ \E c \in Probes \cup {NoCell} :
         /\ focused' = c
         /\ Called("set_focused_cell", c[1], c[2], 0)

\* --------------------------------------- the engine's copy in Sudoku2.py
\* Its generator, write_num, remove_num and write_note are the code of
\* Sudoku.py; remove_note is Sudoku.py's clear_note.
Sudoku2_write_note(nt, x, y, num) == [nt EXCEPT ![y][x][num - 1] = 1]

Sudoku2_remove_note(nt, x, y, num) == [nt EXCEPT ![y][x][num - 1] = 0]

\* return self.notes[x][y]
Sudoku2_get_notes_from_cell(x, y) == notes[x][y]

Sudoku2_CanCall == prog = "Sudoku2" /\ pc = "ready" /\ ops < MaxOps

Sudoku2_Call_write_note ==
    /\ Sudoku2_CanCall
    /\ UNCHANGED <<grid, selected, focused>>
    /\ \E c \in Probes, num \in NoteNums :
         /\ notes' = Sudoku2_write_note(notes, c[1], c[2], num)
         /\ Called("write_note", c[1], c[2], num)

Sudoku2_Call_remove_note ==
    /\ Sudoku2_CanCall
    /\ UNCHANGED <<grid, selected, focused>>
    /\ \E c \in Probes, num \in NoteNums :
         /\ notes' = Sudoku2_remove_note(notes, c[1], c[2], num)
         /\ Called("remove_note", c[1], c[2], num)

\* ------------------------------------------- the graphical shell: class UI
\* The methods of UI act on the module's Grid object; here they are
\* functions of the record of the four fields they read and write.
UIState(g, nt, sel, foc) ==
    [grid |-> g, notes |-> nt, selected |-> sel, focused |-> foc]

\* the Grid object as the event handlers find it
Now == UIState(grid, notes, selected, focused)

\* draw_num_to_cell(num, col, row): a non-zero number clears the cell's notes
UI_draw_num_to_cell(u, num, col, row) ==
    IF num = 0 THEN u
    ELSE [u EXCEPT !.notes = clear_notes_in_cell(@, col, row)]

\* unfocus_cell(pos); pos = NoCell stands for "no argument"
UI_unfocus_cell(u, pos) ==
    LET c == IF pos # NoCell THEN pos ELSE u.focused
    IN IF c = NoCell THEN u
       ELSE [UI_draw_num_to_cell(u, u.grid[c[2]][c[1]], c[1], c[2])
                EXCEPT !.focused = NoCell]

\* focus_cell(), m the cell under the mouse, NoCell when mouse_in_grid()
\* is false
UI_focus_cell(u, m) ==
    IF m = NoCell THEN UI_unfocus_cell(u, NoCell)
    ELSE IF check_if_given(m[1], m[2]) THEN UI_unfocus_cell(u, NoCell)
    ELSE IF u.focused = m THEN u
    ELSE LET prev_pos == u.focused
             u1 == IF prev_pos # u.selected /\ prev_pos # NoCell
                   THEN UI_unfocus_cell(u, prev_pos) ELSE u
         IN IF m # u1.selected /\ m # prev_pos
            THEN UI_draw_num_to_cell([u1 EXCEPT !.focused = m],
                                     u.grid[m[2]][m[1]], m[1], m[2])
            ELSE u1

UI_unselect_cell(u) ==
    IF u.selected = NoCell THEN u
    ELSE UI_draw_num_to_cell(u, u.grid[u.selected[2]][u.selected[1]],
                             u.selected[1], u.selected[2])

\* select_cell that selects given cells as well (mutant)
UI_select_cell_any(u, pos) ==
    IF u.selected = pos THEN u
    ELSE LET u1 == UI_unselect_cell(u)
             u2 == [u1 EXCEPT !.focused = NoCell, !.selected = pos]
         IN UI_draw_num_to_cell(u2, u2.grid[pos[2]][pos[1]], pos[1], pos[2])

UI_select_cell(u, pos) ==
    IF check_if_given(pos[1], pos[2]) THEN u
    ELSE IF u.selected = pos THEN u
    ELSE LET u1 == UI_unselect_cell(u)
             u2 == [u1 EXCEPT !.focused = NoCell, !.selected = pos]
         IN UI_draw_num_to_cell(u2, u2.grid[pos[2]][pos[1]], pos[1], pos[2])

\* delete_num that leaves the notes of the cell (mutant)
UI_delete_num_keeps_notes(u) ==
    IF u.selected = NoCell THEN u
    ELSE [u EXCEPT !.grid = remove_num(@, u.selected[1], u.selected[2])]

UI_delete_num(u) ==
    IF u.selected = NoCell THEN u
    ELSE [u EXCEPT
            !.grid = remove_num(@, u.selected[1], u.selected[2]),
            !.notes = clear_notes_in_cell(@, u.selected[1], u.selected[2])]

\* draw_num(num) up to the test of is_solved()
UI_draw_num(u, num) ==
    IF u.selected = NoCell THEN u
    ELSE [UI_delete_num(u) EXCEPT
            !.grid = write_num(@, num, u.selected[1], u.selected[2])]

\* clear(), m the cell under the mouse
UI_clear(u, m) ==
    UI_focus_cell([u EXCEPT !.grid = clear_nums(@),
                            !.notes = clear_all_notes(@),
                            !.selected = NoCell], m)

\* toggle_note without the test on the cell's number (mutant)
UI_toggle_note_in_filled(u, num) ==
    LET col == u.selected[1]
        row == u.selected[2]
    IN IF u.selected = NoCell THEN u
       ELSE IF u.notes[row][col][num - 1] = 1
       THEN [u EXCEPT !.notes = clear_note(@, col, row, num)]
       ELSE [u EXCEPT !.notes = write_note(@, col, row, num)]

UI_toggle_note(u, num) ==
    LET col == u.selected[1]
        row == u.selected[2]
    IN IF u.selected = NoCell THEN u
       ELSE IF u.grid[row][col] # 0 THEN u
       ELSE IF u.notes[row][col][num - 1] = 1
       THEN [u EXCEPT !.notes = clear_note(@, col, row, num)]
       ELSE [u EXCEPT !.notes = write_note(@, col, row, num)]

\* one step of the loops of move_left, move_right, move_up, move_down
step(dir, c) ==
    CASE dir = "left" ->
           IF c[1] = 0 THEN <<8, IF c[2] = 0 THEN 8 ELSE c[2] - 1>>
           ELSE <<c[1] - 1, c[2]>>
      [] dir = "right" ->
           IF c[1] = 8 THEN <<0, IF c[2] = 8 THEN 0 ELSE c[2] + 1>>
           ELSE <<c[1] + 1, c[2]>>
      [] dir = "up" ->
           IF c[2] = 0 THEN <<IF c[1] = 0 THEN 8 ELSE c[1] - 1, 8>>
           ELSE <<c[1], c[2] - 1>>
      [] dir = "down" ->
           IF c[2] = 8 THEN <<IF c[1] = 8 THEN 0 ELSE c[1] + 1, 0>>
           ELSE <<c[1], c[2] + 1>>

RECURSIVE walk(_, _, _, _)
\* while check_if_given(_x, _y) or (_x, _y) == (x, y): one step; NoCell
\* when the loop does not end (turns counts the cells left to visit)
walk(dir, c, start, turns) ==
    IF ~(check_if_given(c[1], c[2]) \/ c = start) THEN c
    ELSE IF turns = 0 THEN NoCell
    ELSE walk(dir, step(dir, c), start, turns - 1)

\* where the loop of a move ends, from the selected cell
target(u, dir) == walk(dir, u.selected, u.selected, N * N)

\* move_left selects (x, y), the cell it started from
UI_move_left(u) ==
    IF u.selected = NoCell THEN u ELSE UI_select_cell(u, u.selected)

UI_move_right(u) ==
    IF u.selected = NoCell THEN u ELSE UI_select_cell(u, target(u, "right"))

UI_move_up(u) ==
    IF u.selected = NoCell THEN u ELSE UI_select_cell(u, target(u, "up"))

UI_move_down(u) ==
    IF u.selected = NoCell THEN u ELSE UI_select_cell(u, target(u, "down"))

UI_move(u, dir) ==
    CASE dir = "left" -> UI_move_left(u)
      [] dir = "right" -> UI_move_right(u)
      [] dir = "up" -> UI_move_up(u)
      [] dir = "down" -> UI_move_down(u)

\* ------------------------------------------ the graphical shell: play()
\* the event loop of play() is running on a generated grid
InGame == prog = "Sudoku" /\ pc = "ready" /\ ~solved

\* the cells the pointer visits; NoCell is a position off the grid
MousePos == Probes \cup {NoCell}

\* keys are pressed while no cell or one of the probe cells is selected
KeysAt == selected \in Probes \cup {NoCell}

\* the end of one turn of the event loop: "if in_game: UI.focus_cell()" on
\* what the handler left (u), the pointer then being at m
Handled(op, u, m, num) ==
    LET f == UI_focus_cell(u, m)
    IN /\ grid' = f.grid
       /\ notes' = f.notes
       /\ selected' = f.selected
       /\ focused' = f.focused
       /\ mouse' = m
       /\ last' = Event(op, selected[1], selected[2], num)
       /\ UNCHANGED <<prog, pc, N, K, sqrt_N, solution, mask, rng, stack,
                      ret, used, ri, draws, orig, seeded, ops, trail, solved, games>>

\* MOUSEMOTION (also the one that unhides the pointer): only buttons redraw
GUI_mouse_motion ==
    /\ InGame
    /\ UNCHANGED <<note, g_solved>>
    /\ \E m \in MousePos :
         /\ m # mouse
         /\ Handled("mouse_motion", Now, m, 0)

\* MOUSEBUTTONDOWN with the pointer in the grid
GUI_mouse_down ==
    /\ InGame
    /\ mouse # NoCell
    /\ UNCHANGED <<note, g_solved>>
    /\ Handled("select_cell", UI_select_cell(Now, mouse), mouse, 0)

\* MOUSEBUTTONUP on the clear button
GUI_click_clear ==
    /\ InGame
    /\ mouse = NoCell
    /\ UNCHANGED <<note, g_solved>>
    /\ Handled("clear", UI_clear(Now, mouse), mouse, 0)

\* MOUSEBUTTONUP on the note button
GUI_click_note ==
    /\ InGame
    /\ mouse = NoCell
    /\ note' = ~note
    /\ UNCHANGED g_solved
    /\ Handled("note_button", Now, mouse, 0)

\* KEYUP of the key n
GUI_key_n ==
    /\ InGame
    /\ note' = ~note
    /\ UNCHANGED g_solved
    /\ Handled("key_n", Now, mouse, 0)

\* KEYDOWN of a digit key: toggle_note in note mode, draw_num otherwise;
\* draw_num ends in "if grid.is_solved(): UI.win()"
key_digit(num) ==
    IF note
    THEN /\ UNCHANGED g_solved
         /\ Handled("toggle_note", UI_toggle_note(Now, num), mouse, num)
    ELSE LET u == UI_draw_num(Now, num)
         IN /\ g_solved' = IF selected # NoCell /\ u.grid = solution
                           THEN TRUE ELSE g_solved
            /\ Handled("draw_num", u, mouse, num)

GUI_key_digit ==
    /\ InGame
    /\ KeysAt
    /\ UNCHANGED note
    /\ \E num \in NoteNums : key_digit(num)

\* KEYDOWN of backspace: delete_num in both modes
GUI_key_backspace ==
    /\ InGame
    /\ KeysAt
    /\ UNCHANGED <<note, g_solved>>
    /\ Handled("delete_num", UI_delete_num(Now), mouse, 0)

\* KEYUP of an arrow key: hide_mouse puts the pointer at (6, 6), off the
\* grid, then move_<dir>; its loop does not end when no other cell is free
GUI_key_arrow(dir) ==
    /\ InGame
    /\ KeysAt
    /\ UNCHANGED <<note, g_solved>>
    /\ IF selected # NoCell /\ target(Now, dir) = NoCell
       THEN /\ pc' = "hang"
            /\ mouse' = NoCell
            /\ last' = Event(dir, selected[1], selected[2], 0)
            /\ UNCHANGED <<prog, N, K, sqrt_N, solution, grid, mask, notes,
                           selected, focused, rng, stack, ret, used, ri,
                           draws, orig, seeded, ops, trail, solved, games>>
       ELSE Handled(dir, UI_move(Now, dir), NoCell, 0)

GUI_key_left == GUI_key_arrow("left")

GUI_key_right == GUI_key_arrow("right")

GUI_key_up == GUI_key_arrow("up")

GUI_key_down == GUI_key_arrow("down")

\* the state a new Grid(n, k) is in, as the next state
Grid_new(n, k) ==
    /\ N' = n
    /\ K' = k
    /\ sqrt_N' = isqrt(n)
    /\ solution' = ZeroGrid(n)
    /\ grid' = ZeroGrid(n)
    /\ mask' = [y \in 0..(n - 1) |-> [x \in 0..(n - 1) |-> FALSE]]
    /\ notes' = ZeroNotes(n)
    /\ selected' = NoCell
    /\ focused' = NoCell
    /\ stack' = <<>>
    /\ ret' = "none"
    /\ used' = {}
    /\ ri' = 0
    /\ draws' = 0
    /\ orig' = ZeroGrid(n)
    /\ seeded' = ZeroGrid(n)
    /\ ops' = 0
    /\ trail' = <<>>
    /\ pc' = "new"

\* MOUSEBUTTONUP on the play button: play() is entered again, it makes a
\* Grid(9, randint(25, 30)) and, once fill_values() is back, sets note and
\* its own solved to False; no event is handled in between
GUI_click_play ==
    /\ InGame
    /\ mouse = NoCell
    /\ games < MaxGames
    /\ LET d == randint(rng, 25, 30)
       IN /\ rng' = d.rng
          /\ Grid_new(9, d.val)
    /\ games' = games + 1
    /\ note' = FALSE
    /\ solved' = FALSE
    /\ last' = Event("play", -1, -1, 0)
    /\ UNCHANGED <<prog, mouse, g_solved>>

\* the events of one game
GUI_event ==
    \/ GUI_mouse_motion
    \/ GUI_mouse_down
    \/ GUI_click_clear
    \/ GUI_click_note
    \/ GUI_key_n
    \/ GUI_key_digit
    \/ GUI_key_backspace
    \/ GUI_key_left
    \/ GUI_key_right
    \/ GUI_key_up
    \/ GUI_key_down

\* ------------------------------------------------ the console: SudokuCLI.py
add_num(g, x, y, num) == [g EXCEPT ![y][x] = num]

\* the test of play() on an entered number, with N as its bound (mutant)
valid_num_upto_N(num) == 0 < num /\ num <= N

\* "0 < num < 9", the test of play() on an entered number
valid_num(num) == 0 < num /\ num < 9

\* a Python list index: a negative one counts from the end of the list
PyIdx(i) == IF i < 0 THEN i + N ELSE i

\* the indices a list of N items accepts; any other raises IndexError
InRange(i) == -N <= i /\ i < N

\* the positions a player enters, as the 1-based "x, y": the probe cells,
\* the non-given probe cells again with x or y lowered by N, the position
\* left of the first column, and positions past the last column and row
CLI_entries ==
    {<<c[1] + 1, c[2] + 1>> : c \in Probes}
        \cup {<<c[1] + 1 - N, c[2] + 1>> : c \in FirstCells(FALSE, 0, MaxProbe)}
        \cup {<<c[1] + 1, c[2] + 1 - N>> : c \in FirstCells(FALSE, 0, MaxProbe)}
        \cup {<<0, 1>>, <<N + 1, 1>>, <<1, N + 1>>}

\* the numbers a player enters for cell c: 0, the cell's digit of the
\* Solution, another digit, N and N + 1
CLI_nums(c) == WriteNums(c) \cup {N, N + 1}

\* one turn of the loop of play(): a position is read, then a number.
\* posok, numok: the text parses as integers; e: the position entered;
\* num: the number entered. An index no list accepts ends the program with
\* an IndexError that nothing catches
CLI_turn ==
    /\ prog = "SudokuCLI" /\ pc = "ready" /\ ~solved
    /\ UNCHANGED <<prog, N, K, sqrt_N, solution, mask, notes, selected,
                   focused, rng, stack, ret, used, ri, draws, orig, seeded, ops,
                   trail, note, mouse, g_solved, games>>
    /\ \E posok \in BOOLEAN, e \in CLI_entries :
         LET x_pos == e[1] - 1
             y_pos == e[2] - 1
         IN IF ~posok
            THEN /\ last' = Event("Invalid position", -1, -1, 0)
                 /\ UNCHANGED <<pc, grid, solved>>
            ELSE IF ~(InRange(x_pos) /\ InRange(y_pos))
            THEN /\ pc' = "IndexError"
                 /\ last' = Event("check_if_given", x_pos, y_pos, 0)
                 /\ UNCHANGED <<grid, solved>>
            ELSE IF check_if_given(PyIdx(x_pos), PyIdx(y_pos))
            THEN /\ last' = Event("Position already solved", x_pos, y_pos, 0)
                 /\ UNCHANGED <<pc, grid, solved>>
            ELSE \E numok \in BOOLEAN,
                    num \in CLI_nums(<<PyIdx(x_pos), PyIdx(y_pos)>>) :
                   IF ~numok \/ ~valid_num(num)
                   THEN /\ last' = Event("Invalid number", x_pos, y_pos,
                                         IF numok THEN num ELSE 0)
                        /\ UNCHANGED <<pc, grid, solved>>
                   ELSE /\ grid' = add_num(grid, PyIdx(x_pos), PyIdx(y_pos),
                                           num)
                        /\ last' = Event("add_num", x_pos, y_pos, num)
                        /\ UNCHANGED pc
                        /\ solved' = (num_empty_spaces' = 0 /\ is_solved')

\* -------------------------------------------- a client that solves the grid
RECURSIVE FirstEmpty(_, _)
\* the first k cells, in row-major order from cell number c on, that hold 0
FirstEmpty(c, k) ==
    IF k = 0 \/ c >= N * N THEN {}
    ELSE IF grid[c \div N][c % N] = 0
         THEN {<<c % N, c \div N>>} \cup FirstEmpty(c + 1, k - 1)
         ELSE FirstEmpty(c + 1, k)

\* write_num(solution value, x, y) on an empty cell
Solve_write_num ==
    /\ prog = "Grid" /\ pc = "ready"
    /\ UNCHANGED <<notes, selected, focused>>
    /\ \E c \in FirstEmpty(0, MaxAhead) :
         /\ solution[c[2]][c[1]] # 0
         /\ grid' = write_num(grid, solution[c[2]][c[1]], c[1], c[2])
         /\ Called("write_num", c[1], c[2], solution[c[2]][c[1]])

\* ------------------------------- the graphical shell with a solving player
\* MOUSEMOTION onto the first empty cell
GUI_solver_motion ==
    /\ InGame
    /\ UNCHANGED <<note, g_solved>>
    /\ \E m \in FirstEmpty(0, 1) :
         /\ m # mouse
         /\ Handled("mouse_motion", Now, m, 0)

\* KEYDOWN of the digit the Solution has in the selected cell
GUI_solver_digit ==
    /\ InGame
    /\ selected # NoCell
    /\ solution[selected[2]][selected[1]] \in 1..9
    /\ UNCHANGED note
    /\ key_digit(solution[selected[2]][selected[1]])

\* KEYDOWN of backspace on the selected cell
GUI_solver_backspace ==
    /\ InGame
    /\ selected # NoCell
    /\ UNCHANGED <<note, g_solved>>
    /\ Handled("delete_num", UI_delete_num(Now), mouse, 0)

\* ------------------------------------------------------------ specifications
\* SpecGen: Grid(N, K).fill_values() of Sudoku.py, for every K <= N * N
InitGen ==
    /\ prog = "Grid"
    /\ rng \in Seeds
    /\ \E n \in Orders : \E k \in 0..(n * n) : Grid_init(n, k)

SpecGen == InitGen /\ [][Generate]_vars

\* SpecSeed: the fill_diagonal() of Grid(N, 0).fill_values(), from MaxRng
\* states of the random module
InitSeed ==
    /\ prog = "Grid"
    /\ rng \in 0..(MaxRng - 1)
    /\ \E n \in Orders : Grid_init(n, 0)

SpecSeed == InitSeed /\ [][fill_values]_vars

\* SpecRemove: Grid(4, K).fill_values() with every outcome of the draws of
\* remove_K_digits, for K below, at and above N * N. Sampling is fair: while
\* a coordinate is still unused, one is drawn eventually
RemoveK == {3, 16, 17}

InitRemove ==
    /\ prog = "Grid"
    /\ rng = 0
    /\ \E k \in RemoveK : Grid_init(4, k)

NextRemove ==
    \/ fill_values
    \/ fill_remaining_call
    \/ fill_remaining_return
    \/ remove_K_digits_enter
    \/ remove_K_digits_any
    \/ fill_values_return

SpecRemove ==
    /\ InitRemove
    /\ [][NextRemove]_vars
    /\ WF_vars(NextRemove)

\* SpecFill: Grid(4, 0).fill_values() for every pair of orders the two
\* shuffles of fill_diagonal can leave
InitFill ==
    /\ prog = "Grid"
    /\ rng = 0
    /\ Grid_init(4, 0)

NextFill ==
    \/ fill_values_any
    \/ fill_remaining_call
    \/ fill_remaining_return
    \/ remove_K_digits_enter
    \/ fill_values_return

SpecFill == InitFill /\ [][NextFill]_vars

\* SpecEngine: Grid(N, K).fill_values() of Sudoku.py, then a client's calls
\* of the operations on the Playing Grid
EngineK(n) == {k \in {30, n * n - 1} : k <= n * n}

InitEngine ==
    /\ prog = "Grid"
    /\ rng \in Seeds
    /\ \E n \in Orders : \E k \in EngineK(n) : Grid_init(n, k)

NextEngine ==
    \/ Generate
    \/ Call_write_num
    \/ Call_remove_num
    \/ Call_clear_nums

SpecEngine == InitEngine /\ [][NextEngine]_vars

\* SpecSolve: Grid(9, 30).fill_values(), then the correct value is written
\* into the empty cells, one call each, in an order the client chooses
InitSolve ==
    /\ prog = "Grid"
    /\ rng \in Seeds
    /\ Grid_init(9, 30)

NextSolve ==
    \/ Generate
    \/ Solve_write_num

SpecSolve == InitSolve /\ [][NextSolve]_vars

\* the grid each shell's play() makes
InitGUI ==
    /\ prog = "Sudoku"
    /\ \E s \in Seeds :
         LET d == randint(s, 25, 30)
         IN /\ rng = d.rng
            /\ Grid_init(9, d.val)

InitCLI ==
    /\ prog = "SudokuCLI"
    /\ \E s \in Seeds :
         LET d == randint(s, 17, 22)
         IN /\ rng = d.rng
            /\ Grid_init(9, d.val)

\* SpecDigit: the two ways a digit gets into a cell that may have notes: the
\* graphical shell, and a client that calls write_note and write_num
InitDigit == InitGUI \/ InitEngine

NextDigit ==
    \/ Generate
    \/ GUI_event
    \/ Call_write_note
    \/ Call_write_num

SpecDigit == InitDigit /\ [][NextDigit]_vars

\* SpecClient: Grid(N, K).fill_values(), then a client's calls of any of the
\* mutating operations
NextClient ==
    \/ NextEngine
    \/ Call_write_note
    \/ Call_clear_note
    \/ Call_clear_notes_in_cell
    \/ Call_clear_all_notes
    \/ Call_set_selected_cell
    \/ Call_set_focused_cell

SpecClient == InitEngine /\ [][NextClient]_vars

\* SpecNotes: Grid(N, K).fill_values(), then a client's calls of write_note
\* and clear_note
NextNotes ==
    \/ Generate
    \/ Call_write_note
    \/ Call_clear_note

SpecNotes == InitEngine /\ [][NextNotes]_vars

\* SpecCopies: the two copies of the engine that have notes, Grid of
\* Sudoku.py and Grid of Sudoku2.py, each after fill_values(), under a
\* client's calls of their note operations
InitCopies ==
    /\ prog \in {"Grid", "Sudoku2"}
    /\ rng = 0
    /\ \E n \in Orders : Grid_init(n, IF n = 9 THEN 30 ELSE 8)

NextCopies ==
    \/ Generate
    \/ Call_write_note
    \/ Call_clear_note
    \/ Call_clear_notes_in_cell
    \/ Sudoku2_Call_write_note
    \/ Sudoku2_Call_remove_note

SpecCopies == InitCopies /\ [][NextCopies]_vars

\* SpecSearch: the search of fill_values(): Grid(4, 0) for every pair of
\* orders the shuffles can leave, Grid(9, 0) for the seeds of the random module
InitSearch ==
    /\ prog = "Grid"
    /\ \/ rng = 0 /\ Grid_init(4, 0)
       \/ rng \in Seeds /\ Grid_init(9, 0)

NextSearch ==
    \/ N = 4 /\ fill_values_any
    \/ N = 9 /\ fill_values
    \/ fill_remaining_call
    \/ fill_remaining_return
    \/ remove_K_digits_enter
    \/ fill_values_return

SpecSearch == InitSearch /\ [][NextSearch]_vars

\* SpecGUI: one game of the graphical shell, under every sequence of events
NextGUI ==
    \/ Generate
    \/ GUI_event

SpecGUI == InitGUI /\ [][NextGUI]_vars

\* SpecCalls: Grid(4, 8).fill_values() or Grid(9, 30).fill_values(), then a
\* client's calls of the nine operations, at most MaxOps of them
InitCalls ==
    /\ prog = "Grid"
    /\ rng = 0
    /\ \E n \in Orders : Grid_init(n, IF n = 9 THEN 30 ELSE 8)

SpecCalls == InitCalls /\ [][NextClient]_vars

\* SpecNoteOps: Grid(4, 8).fill_values() or Grid(9, 30).fill_values(), then
\* a client's calls of write_num and of the four operations on the Notes
NextNoteOps ==
    \/ Generate
    \/ Call_write_num
    \/ Call_write_note
    \/ Call_clear_note
    \/ Call_clear_notes_in_cell
    \/ Call_clear_all_notes

SpecNoteOps == InitCalls /\ [][NextNoteOps]_vars

\* SpecShells: the two shells
InitShells == InitGUI \/ InitCLI

NextShells ==
    \/ Generate
    \/ GUI_event
    \/ CLI_turn

SpecShells == InitShells /\ [][NextShells]_vars

\* SpecReplay: the graphical shell with the play button, which starts a new
\* game on a new Grid
NextReplay ==
    \/ Generate
    \/ GUI_event
    \/ GUI_click_play

SpecReplay == InitGUI /\ [][NextReplay]_vars

\* SpecWin: the graphical shell with a player who points at the first empty
\* cell, clicks it, types its digit, and may take the digit back
NextWin ==
    \/ Generate
    \/ GUI_solver_motion
    \/ GUI_mouse_down
    \/ GUI_solver_digit
    \/ GUI_solver_backspace

SpecWin == InitGUI /\ [][NextWin]_vars

\* SpecCLI: the console alone
NextCLI ==
    \/ Generate
    \/ CLI_turn

SpecCLI == InitCLI /\ [][NextCLI]_vars

\* ------------------------------------------------------------------- claims
Digits == 1..N

BlockCells(bx, by) ==
    {c \in Coords : /\ bx * sqrt_N <= c[1] /\ c[1] < (bx + 1) * sqrt_N
                    /\ by * sqrt_N <= c[2] /\ c[2] < (by + 1) * sqrt_N}

\* every value of 1..N exactly once in the cells S of sol
OnceEach(sol, S) ==
    \A v \in Digits : Cardinality({c \in S : sol[c[2]][c[1]] = v}) = 1

ValidSolution(sol) ==
    /\ \A c \in Coords : sol[c[2]][c[1]] # 0
    /\ \A y \in 0..(N - 1) : OnceEach(sol, {c \in Coords : c[2] = y})
    /\ \A x \in 0..(N - 1) : OnceEach(sol, {c \in Coords : c[1] = x})
    /\ \A bx \in 0..(sqrt_N - 1) : \A by \in 0..(sqrt_N - 1) :
         OnceEach(sol, BlockCells(bx, by))

\* C1: after fill_values() on a Grid of order 9 the Solution has no zero
\* cell and every row, column and 3x3 block holds each of 1..9 exactly once.
C1_SolutionValid == (pc = "ready" /\ N = 9) => ValidSolution(solution)

C1_Witness == pc = "ready" /\ N = 9 /\ ValidSolution(solution) /\ K = 30

IsCall(op) == ops' = ops + 1 /\ last'.op = op

\* C4: write_num(value, x, y) on a cell for which check_if_given(x, y) is
\* true leaves the Playing Grid at (x, y) equal to the original given value.
C4_GivenWriteKept ==
    (pc = "ready" /\ last.op = "write_num" /\ check_if_given(last.x, last.y))
        => grid[last.y][last.x] = orig[last.y][last.x]

\* the cells where the Playing Grid differs from the Solution
DiffCells == {c \in Coords : grid[c[2]][c[1]] # solution[c[2]][c[1]]}

\* C5: in every reachable state is_solved() is true iff the Playing Grid
\* equals the Solution at every cell; from a solved state write_num of an
\* incorrect value to a non-given cell makes it false, and writing the
\* Solution value back to that cell makes it true again.
C5_SolvedIffEqual ==
    /\ [](is_solved <=> DiffCells = {})
    /\ [][(/\ IsCall("write_num")
           /\ ~check_if_given(last'.x, last'.y)
           /\ is_solved
           /\ last'.num # solution[last'.y][last'.x]) => ~is_solved']_vars
    /\ [][(/\ IsCall("write_num")
           /\ ~check_if_given(last'.x, last'.y)
           /\ DiffCells = {<<last'.x, last'.y>>}
           /\ last'.num = solution[last'.y][last'.x]) => is_solved']_vars

\* solved, then not solved, then solved again by a write to a non-given cell
C5_Witness ==
    /\ trail = <<TRUE, FALSE, TRUE>>
    /\ last.op = "write_num" /\ ~check_if_given(last.x, last.y)
    /\ last.num = solution[last.y][last.x]

ZeroCells == {c \in Coords : grid[c[2]][c[1]] = 0}

\* C7: num_empty_spaces() is the number of Playing Grid cells holding 0;
\* write_num of a non-zero value to an empty cell decreases it by one,
\* remove_num on a filled cell increases it by one, and writing the same
\* non-zero value to the same cell a second time leaves it unchanged.
C7_EmptyCount ==
    /\ [](num_empty_spaces = Cardinality(ZeroCells))
    /\ [][(/\ IsCall("write_num") /\ last'.num # 0
           /\ grid[last'.y][last'.x] = 0)
          => num_empty_spaces' = num_empty_spaces - 1]_vars
    /\ [][(/\ IsCall("remove_num") /\ grid[last'.y][last'.x] # 0)
          => num_empty_spaces' = num_empty_spaces + 1]_vars
    /\ [][(/\ IsCall("write_num") /\ last'.num # 0 /\ last' = last)
          => num_empty_spaces' = num_empty_spaces]_vars

\* a digit written to an empty cell, written again, then removed
C7_Witness ==
    /\ pc = "ready" /\ ops = 3 /\ last.op = "remove_num"
    /\ ~check_if_given(last.x, last.y)
    /\ num_empty_spaces = N * N - K
    /\ num_empty_spaces > 0

\* C8: after clear_nums(), called in any reachable state, every given cell
\* of the Playing Grid still holds its original value and every non-given
\* cell holds 0; the Mask and the Solution are unchanged.
C8_ClearKeepsGivens ==
    [][IsCall("clear_nums") =>
         /\ \A c \in Given : grid'[c[2]][c[1]] = orig[c[2]][c[1]]
         /\ \A c \in NonGiven : grid'[c[2]][c[1]] = 0
         /\ mask' = mask
         /\ solution' = solution]_vars

\* C6: on Grid(9, 30) after fill_values(), while the correct Solution value
\* is written into the empty cells in any order, is_solved() is false before
\* the write that fills the last empty cell and true after it.
C6_SolvedOnLastWrite ==
    (pc = "ready" /\ N = 9 /\ K = 30) =>
        /\ is_solved <=> ops = N * N - K
        /\ is_solved <=> ZeroCells = {}
        /\ \A i \in 1..Len(trail) : trail[i] <=> i = N * N - K

\* all 51 cells written, the last write not to the last cell in reading order
C6_Witness ==
    /\ pc = "ready" /\ N = 9 /\ K = 30 /\ ops = N * N - K
    /\ is_solved /\ Len(trail) = ops /\ trail[ops]
    /\ last.op = "write_num"
    /\ \E c \in NonGiven : c[2] * N + c[1] > last.y * N + last.x

\* C3: under any sequence of user actions in either shell the Playing Grid
\* value at every given cell stays the value it received at generation.
C3_GivensKept ==
    (prog \in {"Sudoku", "SudokuCLI"} /\ pc = "ready") =>
        \A c \in Given : grid[c[2]][c[1]] = orig[c[2]][c[1]]

\* a digit is typed into the selected cell right after a click on a given
\* cell, on which the pointer still is
C3_Witness ==
    /\ prog = "Sudoku" /\ pc = "ready"
    /\ last.op = "draw_num" /\ selected # NoCell
    /\ mouse # NoCell /\ check_if_given(mouse[1], mouse[2])
    /\ grid[selected[2]][selected[1]] = last.num
    /\ \A c \in Given : grid[c[2]][c[1]] = orig[c[2]][c[1]]

\* the Notes vector of cell (x, y) is all zeros
NoNotes(x, y) == \A k \in 0..(N - 1) : notes[y][x][k] = 0

\* C9 as stated: whenever a non-zero digit is written to a cell, by
\* write_num alone or by the graphical shell's draw_num, the Notes vector of
\* that cell is all zeros afterwards.
C9_NotesClearedOnWrite ==
    (/\ pc = "ready" /\ last.op \in {"write_num", "draw_num"}
     /\ last.num # 0 /\ last.x >= 0) => NoNotes(last.x, last.y)

\* C9, amended: after draw_num of the graphical shell the selected cell
\* holds the digit and its Notes vector is all zeros; write_num alone leaves
\* every Notes vector as it was.
C9_NotesClearedByDrawNum ==
    /\ []((/\ pc = "ready" /\ last.op = "draw_num" /\ last.x >= 0)
            => /\ NoNotes(last.x, last.y)
               /\ grid[last.y][last.x] = last.num)
    /\ [][IsCall("write_num") => notes' = notes]_vars

\* draw_num on a selected cell that had a note set
C9_Witness ==
    /\ prog = "Sudoku" /\ pc = "ready"
    /\ last.op = "draw_num" /\ last.x >= 0 /\ last.had
    /\ last.num # 0 /\ grid[last.y][last.x] = last.num
    /\ NoNotes(last.x, last.y)

\* num is in none of row y, column x and the block of (x, y) of sol
Fits(sol, x, y, num) ==
    /\ \A i \in 0..(N - 1) : sol[y][i] # num
    /\ \A j \in 0..(N - 1) : sol[j][x] # num
    /\ \A i \in 0..(sqrt_N - 1) : \A j \in 0..(sqrt_N - 1) :
         sol[(y - (y % sqrt_N)) + j][(x - (x % sqrt_N)) + i] # num

\* C10: in every copy of the engine check_position(x, y, num) is true iff
\* num is nowhere in row y of the Solution, nowhere in column x and in none
\* of the sqrt(N) x sqrt(N) cells of the block of (x, y).
C10_CheckPosition ==
    \A c \in Coords : \A num \in 1..N :
        self_check_position(solution, c[1], c[2], num)
            <=> Fits(solution, c[1], c[2], num)

\* C11: when fill_remaining returns false to fill_values, generation is
\* retried; fill_values never goes on to remove_K_digits, nor returns, with
\* a Solution that a failed fill left partially filled.
C11_FailedFillRetried ==
    (pc \in {"remove", "ready"}) =>
        /\ ret = "True"
        /\ \A c \in Coords : solution[c[2]][c[1]] # 0

\* the events that edit the grid or the notes of a game
EditOps == {"draw_num", "toggle_note", "delete_num", "clear"}

\* C12: in the graphical shell, once a digit entry makes is_solved() true,
\* UI.win() is called and the loop of play() stops: no digit, backspace, note
\* or clear event of that game is processed after the win.
C12_WinStopsLoop ==
    /\ []((prog = "Sudoku" /\ pc = "ready" /\ last.op = "draw_num"
              /\ is_solved) => g_solved)
    /\ [][(prog = "Sudoku" /\ g_solved) => last'.op \notin EditOps]_vars

Arrows == {"left", "right", "up", "down"}

\* an arrow key is pressed while a cell is selected and another non-given
\* cell exists
ArrowCase(dir) ==
    /\ prog = "Sudoku"
    /\ last'.op = dir
    /\ selected # NoCell
    /\ NonGiven \ {selected} # {}

\* C13: each of the four arrow keys, pressed while a cell is selected and
\* another non-given cell exists, terminates and leaves selected the first
\* non-given cell met when stepping in its direction with wrap-around, a
\* cell different from the one selected before.
C13_ArrowMoves ==
    [][\A dir \in Arrows :
          ArrowCase(dir) =>
              /\ pc' = "ready"
              /\ selected' = target(Now, dir)
              /\ selected' # selected
              /\ ~check_if_given(selected'[1], selected'[2])]_vars

\* C14: the console changes no cell of the Playing Grid on an entered number
\* that is not numeric or not in 0 < num < 9, and asks again; a number that
\* is in 0 < num < 9 is written into the chosen non-given cell.
C14_NumberChecked ==
    [][(prog = "SudokuCLI" /\ pc = "ready") =>
         /\ last'.op = "Invalid number" =>
               /\ ~(0 < last'.num /\ last'.num < 9)
               /\ grid' = grid
               /\ pc' = "ready" /\ ~solved'
         /\ last'.op = "add_num" =>
               /\ 0 < last'.num /\ last'.num < 9
               /\ ~check_if_given(PyIdx(last'.x), PyIdx(last'.y))
               /\ grid' = [grid EXCEPT
                             ![PyIdx(last'.y)][PyIdx(last'.x)] = last'.num]
         /\ grid' # grid => last'.op = "add_num"]_vars

\* the number 9 has just been refused, after a number was written
C14_Witness ==
    /\ prog = "SudokuCLI" /\ pc = "ready"
    /\ last.op = "Invalid number" /\ last.num = 9
    /\ \E c \in NonGiven : grid[c[2]][c[1]] \in 1..8

\* the loop of the console's play() has been left
CLI_loop_ended == solved \/ pc = "IndexError"

\* C15: the console loop ends, reporting a win, exactly when right after an
\* accepted write num_empty_spaces() = 0 and is_solved() both hold; in every
\* other state the loop keeps prompting.
C15_LoopEndsOnWin ==
    prog = "SudokuCLI" =>
        (CLI_loop_ended <=>
            /\ last.op = "add_num"
            /\ num_empty_spaces = 0
            /\ is_solved)

\* C16: an operation given a coordinate outside [0, N) changes nothing in
\* the Playing Grid; a console entry whose 1-based x or y is 0 or negative,
\* or greater than N, changes no cell.
C16_OutsideRejected ==
    [][(/\ prog = "SudokuCLI" /\ pc = "ready"
        /\ last'.op # "Invalid position"
        /\ last'.x \notin 0..(N - 1) \/ last'.y \notin 0..(N - 1))
          => grid' = grid]_vars

\* the step changes no flag other than flag k of cell (x, y)
OtherFlagsKept(x, y, k) ==
    \A c \in Coords : \A j \in 0..(N - 1) :
        (c # <<x, y>> \/ j # k) =>
            notes'[c[2]][c[1]][j] = notes[c[2]][c[1]][j]

\* the flag the step sets to v is flag num - 1 of its cell, and no other
\* flag changes; a step that finds the flag at v changes nothing
FlagSet(v) ==
    /\ notes'[last'.y][last'.x][last'.num - 1] = v
    /\ OtherFlagsKept(last'.x, last'.y, last'.num - 1)
    /\ notes[last'.y][last'.x][last'.num - 1] = v => notes' = notes

\* C17: notes do not stack: write_note twice and then one clear_note of the
\* same number leave the flag cleared; write_note and clear_note are each
\* idempotent and change no flag other than entry num - 1 of their cell.
C17_NotesDoNotStack ==
    [][/\ IsCall("write_note") => FlagSet(1)
       /\ IsCall("clear_note") => FlagSet(0)
       /\ (IsCall("clear_note") /\ last.op = "write_note"
              /\ <<last.x, last.y, last.num>> = <<last'.x, last'.y, last'.num>>
              /\ last.had)
             => notes'[last'.y][last'.x] = [k \in 0..(N - 1) |->
                   IF k = last'.num - 1 THEN 0 ELSE notes[last'.y][last'.x][k]]
      ]_vars

\* three calls were made, the last a clear_note of a cell that had a note,
\* and no flag is set any more
C17_Witness ==
    /\ prog = "Grid" /\ ops = 3
    /\ last.op = "clear_note" /\ last.had
    /\ notes = ZeroNotes(N)

\* C18: for every choice of the diagonal blocks' permutations,
\* fill_remaining(sqrt_N - 1, 0) on the diagonally seeded Solution returns
\* true: total backtracking failure is unreachable.
C18_FillSucceeds ==
    (pc = "fill" /\ stack = <<>> /\ ret # "none") => ret = "True"

\* the rows that keep the non-zero cells of row and hold each digit once
RowFills(row) ==
    {r \in [0..(N - 1) -> Digits] :
        /\ \A x \in 0..(N - 1) : row[x] # 0 => r[x] = row[x]
        /\ \A i, j \in 0..(N - 1) : r[i] = r[j] => i = j}

\* the grids that keep the non-zero cells of sol and satisfy every row,
\* column and block constraint
Completions(sol) ==
    LET rows == UNION {RowFills(sol[y]) : y \in 0..(N - 1)}
    IN {g \in [0..(N - 1) -> rows] :
          /\ \A c \in Coords :
                sol[c[2]][c[1]] # 0 => g[c[2]][c[1]] = sol[c[2]][c[1]]
          /\ ValidSolution(g)}

\* the outermost call of fill_remaining has returned
FillReturned == pc = "fill" /\ stack = <<>> /\ ret # "none"

\* C19: fill_remaining is exhaustive: on a diagonally seeded Solution it
\* returns true iff some assignment of the empty cells satisfies all row,
\* column and block constraints, and when it returns true the Solution it
\* leaves is such an assignment (order 4, every seeding).
C19_FillExhaustive ==
    FillReturned =>
        /\ ret = "True" <=> Completions(seeded) # {}
        /\ ret = "True" => solution \in Completions(seeded)

\* the outermost call has returned true and left a completion of the seeding
C19_Witness ==
    /\ FillReturned /\ N = 4
    /\ ret = "True"
    /\ solution \in Completions(seeded)
    /\ solution # seeded

\* the Solution at the moment the callers st made their latest call: the
\* seeded cells and, for each caller waiting in its loop, its candidate
Began(st) ==
    LET tried == {i \in 1..Len(st) : st[i].num >= 1}
        cells == {<<st[i].x, st[i].y>> : i \in tried}
    IN /\ \A i \in tried : solution[st[i].y][st[i].x] = st[i].num
       /\ \A c \in Coords \ cells :
             solution[c[2]][c[1]] = seeded[c[2]][c[1]]

\* C20: whenever a call fill_remaining(x, y) returns false the Solution is
\* exactly what it was when that call began: every cell it tentatively
\* assigned is back to 0, and after a total failure only the diagonal
\* blocks are non-zero.
C20_FalseRestores ==
    pc = "fill" =>
        /\ (stack # <<>> /\ Top.num = 0 /\ ret = "none") => Began(Pop)
        /\ ret = "False" => Began(stack)
        /\ (ret = "False" /\ stack = <<>>) =>
              \A c \in Coords :
                  c[1] \div sqrt_N # c[2] \div sqrt_N
                      => solution[c[2]][c[1]] = 0

\* a call below the outermost one has returned false, and its callers'
\* candidates are still in place
C20_Witness ==
    /\ pc = "fill" /\ ret = "False"
    /\ Len(stack) >= 2
    /\ Began(stack)
    /\ solution # seeded

\* the cells fill_diagonal wrote
SeededCells == {c \in Coords : seeded[c[2]][c[1]] # 0}

\* C21: fill_remaining never changes a cell that was non-zero when it was
\* first called: the values fill_diagonal wrote into the diagonal blocks are
\* the same during the search and in the final Solution, whether the fill
\* succeeds or fails.
C21_SeedKept ==
    (pc \in {"fill", "remove", "ready"}) =>
        \A c \in SeededCells : solution[c[2]][c[1]] = seeded[c[2]][c[1]]

\* the fill is over, it has written cells, and the seeded ones are as seeded
C21_Witness ==
    /\ pc = "ready" /\ ret = "True"
    /\ solution # seeded
    /\ SeededCells # {}
    /\ \A c \in SeededCells : solution[c[2]][c[1]] = seeded[c[2]][c[1]]

\* fill_diagonal() has just returned: the first fill_remaining call is due
AfterDiagonal ==
    /\ pc = "fill" /\ ret = "none"
    /\ stack = <<Frame(sqrt_N - 1, 0, 0)>>

\* no non-zero value twice among the cells S of sol
NoRepeat(sol, S) ==
    \A c, d \in S :
        (c # d /\ sol[c[2]][c[1]] # 0) => sol[c[2]][c[1]] # sol[d[2]][d[1]]

\* C22: after fill_diagonal() on an empty Solution each diagonal block holds
\* every value 1..N exactly once, every cell outside the diagonal blocks is
\* 0, and no row, column or block holds a non-zero value twice.
C22_DiagonalSeeded ==
    AfterDiagonal =>
        /\ \A b \in 0..(sqrt_N - 1) : OnceEach(solution, BlockCells(b, b))
        /\ \A c \in Coords :
              c[1] \div sqrt_N # c[2] \div sqrt_N => solution[c[2]][c[1]] = 0
        /\ \A y \in 0..(N - 1) : NoRepeat(solution, {c \in Coords : c[2] = y})
        /\ \A x \in 0..(N - 1) : NoRepeat(solution, {c \in Coords : c[1] = x})
        /\ \A bx \in 0..(sqrt_N - 1) : \A by \in 0..(sqrt_N - 1) :
              NoRepeat(solution, BlockCells(bx, by))

\* fill_diagonal() has just seeded the three blocks of a 9x9 Solution
C22_Witness ==
    /\ AfterDiagonal /\ N = 9
    /\ \A b \in 0..2 : OnceEach(solution, BlockCells(b, b))
    /\ solution[0][3] = 0 /\ solution[3][0] = 0

\* C23: remove_K_digits() terminates, under fair sampling, whenever
\* K <= N * N, having marked K pairwise distinct coordinates; a coordinate
\* drawn a second time changes nothing and does not count; with K > N * N
\* the loop never terminates.
C23_RemoveTerminates ==
    /\ K <= N * N =>
          <>(pc = "ready" /\ Cardinality(used) = K /\ Cardinality(Given) = K)
    /\ [][/\ K > N * N => pc' # "ready"
          /\ (pc = "remove" /\ pc' = "remove") =>
                /\ ri' = ri + 1
                /\ \E c \in Coords \ used : used' = used \cup {c}]_vars

\* remove_K_digits has returned after marking every cell of the grid
C23_Witness ==
    /\ pc = "ready" /\ K = N * N
    /\ Cardinality(used) = K
    /\ Given = Coords

\* C24: during fill_values() the depth of nested fill_remaining calls never
\* exceeds N * N (81 for N = 9), at every point of the search.
C24_DepthBounded == Len(stack) <= N * N

\* the search is at its deepest: one call for every cell from
\* (sqrt_N - 1, 0) on and the call that meets the end of the grid
C24_Witness ==
    /\ pc = "fill"
    /\ Len(stack) = N * N - sqrt_N + 2
    /\ Top = Frame(N, N - 1, 0)

\* C25: once fill_values() has returned, no call of write_num, remove_num,
\* clear_nums, write_note, clear_note, clear_notes_in_cell, clear_all_notes,
\* set_selected_cell or set_focused_cell changes a cell of the Solution or of
\* the Mask.
C25_SolutionAndMaskFrozen ==
    [][pc = "ready" => (solution' = solution /\ mask' = mask)]_vars

\* MaxOps calls have changed the Playing Grid, set a note and selected a cell;
\* the Mask still marks the cells remove_K_digits revealed and the Solution
\* still agrees with the puzzle on each of them
C25_Witness ==
    /\ pc = "ready"
    /\ ops = MaxOps
    /\ grid # orig
    /\ \E c \in Coords : \E k \in 0..(N - 1) : notes[c[2]][c[1]][k] = 1
    /\ selected # NoCell
    /\ Given = used
    /\ \A c \in Given : solution[c[2]][c[1]] = orig[c[2]][c[1]]

NoteOps == {"write_note", "clear_note", "clear_notes_in_cell", "clear_all_notes"}

\* C26: write_note, clear_note, clear_notes_in_cell and clear_all_notes leave
\* every cell of the Playing Grid as it was, so is_solved() and
\* num_empty_spaces() return after the call what they returned before it.
C26_NotesLeaveGrid ==
    [][(\E op \in NoteOps : IsCall(op)) =>
          /\ grid' = grid
          /\ is_solved' = is_solved
          /\ num_empty_spaces' = num_empty_spaces]_vars

\* write_note has just set a note in a game where a number was entered before
C26_Witness ==
    /\ pc = "ready"
    /\ last.op = "write_note"
    /\ notes[last.y][last.x][last.num - 1] = 1
    /\ grid # orig
    /\ num_empty_spaces = N * N - K - 1

\* the cells in which one step sets a note
NotesSet ==
    {c \in Coords :
        /\ notes'[c[2]][c[1]] # notes[c[2]][c[1]]
        /\ \E k \in 0..(N - 1) :
             notes[c[2]][c[1]][k] = 0 /\ notes'[c[2]][c[1]][k] = 1}

\* C27: in the graphical shell, after any sequence of events, the Notes vector
\* of every given cell is all zeros, and an event sets a note only in the cell
\* that is selected, not given and empty in the Playing Grid. (The notes of
\* the given cells are looked at when the game begins and after every step
\* that changes a note.)
C27_NotesOnlyInEmptySelected ==
    [][(prog = "Sudoku" /\ pc' = "ready" /\ (pc # "ready" \/ notes' # notes)) =>
          /\ \A c \in Coords :
                mask'[c[2]][c[1]] =>
                    \A k \in 0..(N - 1) : notes'[c[2]][c[1]][k] = 0
          /\ pc = "ready" =>
                \A c \in NotesSet :
                   /\ c = selected
                   /\ c \notin Given
                   /\ grid[c[2]][c[1]] = 0]_vars

\* a digit key in note mode has just set a note in the selected cell, which
\* is not given and holds no number
C27_Witness ==
    /\ prog = "Sudoku"
    /\ pc = "ready"
    /\ last.op = "toggle_note"
    /\ selected # NoCell
    /\ selected \notin Given
    /\ grid[selected[2]][selected[1]] = 0
    /\ notes[selected[2]][selected[1]][last.num - 1] = 1
    /\ \A c \in Given : \A k \in 0..(N - 1) : notes[c[2]][c[1]][k] = 0

\* get_notes_from_cell(x, y) of the copy of the engine that is running
NotesRead(x, y) ==
    IF prog = "Sudoku2" THEN Sudoku2_get_notes_from_cell(x, y)
    ELSE get_notes_from_cell(x, y)

\* C28: in every copy of the engine that has notes, after write_note(x, y, num)
\* the vector get_notes_from_cell(x, y) returns has entry num - 1 set, for
\* every x and y, x # y included.
C28_NotesReadBack ==
    (pc = "ready" /\ last.op = "write_note") =>
        NotesRead(last.x, last.y)[last.num - 1] = 1

\* C29: every puzzle the console program generates can be won: it has no cell
\* that is not given and whose Solution value the console refuses to write.
C29_EveryCellWritable ==
    (prog = "SudokuCLI" /\ pc = "ready") =>
        \A c \in NonGiven : valid_num(solution[c[2]][c[1]])

\* g comes before h in row-major lexicographic order
LexLess(g, h) ==
    \E k \in 0..(N * N - 1) :
        /\ g[k \div N][k % N] < h[k \div N][k % N]
        /\ \A j \in 0..(k - 1) : g[j \div N][j % N] = h[j \div N][j % N]

RECURSIVE Extensions(_, _)
\* the grids that keep g and give every empty cell from cell number k on a
\* value that is in none of its row, column and block
Extensions(g, k) ==
    IF k >= N * N THEN {g}
    ELSE IF g[k \div N][k % N] # 0 THEN Extensions(g, k + 1)
    ELSE UNION {Extensions([g EXCEPT ![k \div N][k % N] = d], k + 1) :
                   d \in {e \in Digits : Fits(g, k % N, k \div N, e)}}

\* the rows of the Solution that are taken as found; the rows below them,
\* the last MaxFree or all of them, are open
Kept == IF N <= MaxFree THEN 0 ELSE N - MaxFree

RECURSIVE WithRows(_, _)
\* g with its rows y .. Kept - 1 as fill_remaining left them
WithRows(g, y) ==
    IF y >= Kept THEN g ELSE WithRows([g EXCEPT ![y] = solution[y]], y + 1)

\* the seeding with the first Kept rows as fill_remaining left them
Start == WithRows(seeded, 0)

\* the first of the grids cs in row-major order, seed when there is none
Smallest(cs, seed) ==
    IF cs = {} THEN seed
    ELSE CHOOSE g \in cs : \A h \in cs : g = h \/ LexLess(g, h)

\* C30: the Solution fill_remaining leaves is determined by the diagonal
\* blocks' contents: it is the valid completion of the seeding that is
\* smallest in row-major lexicographic order (order 4: among all completions
\* of every seeding; order 9: among all that share its first Kept rows).
C30_SmallestCompletion ==
    FillReturned => solution = Smallest(Extensions(Start, Kept * N), seeded)

\* the search has returned a completion and another valid completion of the
\* same seeding comes after it
C30_Witness ==
    /\ FillReturned /\ ret = "True"
    /\ \E g \in Extensions(Start, Kept * N) :
          ValidSolution(g) /\ LexLess(solution, g)

====
